---------------------------- MODULE Spec2Model ----------------------------
(***************************************************************************)
(* Model of the tax impact engine, src/engine/tax_engine.py.               *)
(*                                                                         *)
(* calculate_tax_impact(monthly_income) is modelled statement by           *)
(* statement: pc is the position of the running call, the other variables  *)
(* are its locals, the value it returned and what a caller can observe     *)
(* over several calls.                                                     *)
(*                                                                         *)
(* Numbers.  Python floats are modelled as exact rationals [n, d] in       *)
(* lowest terms (d > 0), so "full precision" is exact and round(x, 2) is   *)
(* round-half-to-even on the exact value.                                  *)
(*                                                                         *)
(* The two regime calculators (engine/tax_rules_2024.py and                *)
(* engine/tax_rules_2026.py) are imported by the engine but their source   *)
(* is not available; they are modelled from section 4.1 of the             *)
(* specification, over bracket tables drawn from a small set of            *)
(* configurations.                                                         *)
(***************************************************************************)
EXTENDS Integers, Sequences, FiniteSets

VARIABLES
    regimes,            \* static configuration: the two regimes' rules
    pc,                 \* position of the running call
    monthly_income,     \* the argument of the running / last call
    annual_income,      \* local, line 6
    zero_tax_result,    \* local, lines 9-16
    current,            \* local, line 19 or 33
    proposed,           \* local, line 20 or 34
    annual_relief,      \* local, line 22 or 36
    monthly_relief,     \* local, line 23 or 37
    percentage_change,  \* local, lines 25-28 or 38
    result,             \* the value last returned to the caller
    invoked,            \* regime calculator invocations of the running call
    memo,               \* caller's record: first result seen for each input
    ncalls              \* number of calls started

vars == <<regimes, pc, monthly_income, annual_income, zero_tax_result,
          current, proposed, annual_relief, monthly_relief,
          percentage_change, result, invoked, memo, ncalls>>

locals == <<annual_income, zero_tax_result, current, proposed,
            annual_relief, monthly_relief, percentage_change>>

-----------------------------------------------------------------------------
(* Bounds and program constants *)

MaxCalls == 3

Threshold == 800000

MonthsPerYear == 12

-----------------------------------------------------------------------------
(* Exact rational arithmetic standing for Python float arithmetic *)

Abs(i) == IF i < 0 THEN -i ELSE i

RECURSIVE GCD(_, _)
GCD(a, b) == IF b = 0 THEN a ELSE GCD(b, a % b)

LCM(a, b) == (a \div GCD(a, b)) * b

Norm(n, d) ==
    LET g == GCD(Abs(n), d)
    IN  [n |-> IF n < 0 THEN -(Abs(n) \div g) ELSE n \div g, d |-> d \div g]

FromInt(i) == [n |-> i, d |-> 1]

Zero == FromInt(0)

IsNum(x) == DOMAIN x = {"n", "d"}

RatNeg(a) == [n |-> -a.n, d |-> a.d]

RatAdd(a, b) ==
    LET l == LCM(a.d, b.d)
    IN  Norm(a.n * (l \div a.d) + b.n * (l \div b.d), l)

RatSub(a, b) == RatAdd(a, RatNeg(b))

RatMul(a, b) ==
    LET g1 == GCD(Abs(a.n), b.d)
        g2 == GCD(Abs(b.n), a.d)
        an == IF a.n < 0 THEN -(Abs(a.n) \div g1) ELSE a.n \div g1
        bn == IF b.n < 0 THEN -(Abs(b.n) \div g2) ELSE b.n \div g2
    IN  Norm(an * bn, (a.d \div g2) * (b.d \div g1))

RatLt(a, b) == a.n * b.d < b.n * a.d

RatLe(a, b) == a.n * b.d <= b.n * a.d

RatGt(a, b) == RatLt(b, a)

RatMax(a, b) == IF RatLt(a, b) THEN b ELSE a

RatMin(a, b) == IF RatLt(b, a) THEN b ELSE a

\* Python raises ZeroDivisionError on a float division by zero.
ZeroDivisionError == [error |-> "ZeroDivisionError"]

RatDiv(a, b) ==
    IF b.n = 0 THEN ZeroDivisionError
    ELSE RatMul(a, IF b.n < 0 THEN [n |-> -b.d, d |-> -b.n]
                              ELSE [n |-> b.d, d |-> b.n])

\* round(x, 2): to the nearest hundredth, ties to the even hundredth.
Round2(x) ==
    LET a     == Abs(x.n)
        ip    == a \div x.d
        r0    == a % x.d
        c     == (r0 * 100) \div x.d
        r     == (r0 * 100) % x.d
        cents == ip * 100 + c
        up    == (2 * r > x.d) \/ (2 * r = x.d /\ cents % 2 = 1)
        m     == IF up THEN cents + 1 ELSE cents
    IN  Norm(IF x.n < 0 THEN -m ELSE m, 100)

-----------------------------------------------------------------------------
(* Regime configuration: relief rule and bracket table (specification      *)
(* sections 3 and 6).  Rates are percentages; the top band is unbounded.   *)

Band(lower, upper, rate) ==
    [lower |-> FromInt(lower), upper |-> FromInt(upper), bounded |-> TRUE,
     rate |-> Norm(rate, 100)]

TopBand(lower, rate) ==
    [lower |-> FromInt(lower), upper |-> FromInt(lower), bounded |-> FALSE,
     rate |-> Norm(rate, 100)]

\* max(200000, 0.01 * gross_income) + 0.20 * gross_income
Relief2024 == [floor |-> FromInt(200000), pct |-> Norm(1, 100), flat |-> Norm(20, 100)]

\* a regime without a consolidated relief allowance
ReliefNone == [floor |-> Zero, pct |-> Zero, flat |-> Zero]

Brackets2024 ==
    { <<Band(0, 300000, 7), Band(300000, 600000, 11), Band(600000, 1100000, 15),
        Band(1100000, 1600000, 19), Band(1600000, 3200000, 21), TopBand(3200000, 24)>>,
      <<Band(0, 500000, 0), TopBand(500000, 11)>> }

Brackets2026 ==
    { <<Band(0, 800000, 0), Band(800000, 3000000, 15), Band(3000000, 12000000, 18),
        Band(12000000, 25000000, 21), Band(25000000, 50000000, 23),
        TopBand(50000000, 25)>>,
      <<TopBand(0, 25)>> }

Configs ==
    { [r2024 |-> [relief |-> Relief2024, brackets |-> b4],
       r2026 |-> [relief |-> ReliefNone, brackets |-> b6]] :
      b4 \in Brackets2024, b6 \in Brackets2026 }

-----------------------------------------------------------------------------
(* Regime Calculator (specification section 4.1) *)

InvalidInputError == [error |-> "InvalidInputError"]

IsError(x) == DOMAIN x = {"error"}

ReliefRule(rule, gross) ==
    RatAdd(RatMax(rule.floor, RatMul(rule.pct, gross)), RatMul(rule.flat, gross))

BandTax(band, taxable) ==
    LET top == IF band.bounded THEN RatMin(taxable, band.upper) ELSE taxable
    IN  RatMul(band.rate, RatMax(Zero, RatSub(top, band.lower)))

RECURSIVE WalkBrackets(_, _, _)
WalkBrackets(table, taxable, i) ==
    IF i > Len(table) THEN Zero
    ELSE RatAdd(BandTax(table[i], taxable), WalkBrackets(table, taxable, i + 1))

Compute(regime, gross) ==
    IF RatLt(gross, Zero) THEN InvalidInputError
    ELSE LET relief  == ReliefRule(regime.relief, gross)
             taxable == RatMax(Zero, RatSub(gross, relief))
             tax     == WalkBrackets(regime.brackets, taxable, 1)
         IN  [gross_income        |-> gross,
              taxable_income      |-> taxable,
              consolidated_relief |-> relief,
              annual_tax          |-> tax,
              monthly_tax         |-> RatDiv(tax, FromInt(MonthsPerYear)),
              effective_rate      |-> IF RatGt(gross, Zero) THEN RatDiv(tax, gross)
                                      ELSE Zero]

calculate_pita_2024(gross) == Compute(regimes.r2024, gross)

calculate_pita_2026(gross) == Compute(regimes.r2026, gross)

-----------------------------------------------------------------------------
(* calculate_tax_impact: the expressions of its statements *)

\* a local that no statement has assigned yet
Unbound == [unbound |-> TRUE]

\* the caller has received no value
NoResult == [none |-> TRUE]

\* the finite set of arguments the calls are made with
MonthlyIncomes ==
    { FromInt(-100), Zero, FromInt(50000), Norm(200000, 3), FromInt(66676),
      FromInt(72924), FromInt(500000) }

\* Faulty variant of line 6: the product is formed on the taxable branch only
\* and is zero by default elsewhere.
AnnualIncome_deferred(m) ==
    LET a == RatMul(m, FromInt(MonthsPerYear))
    IN  IF RatGt(a, FromInt(Threshold)) THEN a ELSE Zero

\* line 6
AnnualIncome(m) == RatMul(m, FromInt(MonthsPerYear))

\* Faulty variant of lines 9-16: the template is kept from one call to the
\* next and carries the gross income of the call before.
ZeroTaxResult_shared(annual) ==
    [gross_income        |-> IF result = NoResult THEN annual ELSE result.annual_income,
     taxable_income      |-> Zero,
     consolidated_relief |-> Zero,
     annual_tax          |-> Zero,
     monthly_tax         |-> Zero,
     effective_rate      |-> Zero]

\* lines 9-16
ZeroTaxResult(annual) ==
    [gross_income        |-> annual,
     taxable_income      |-> Zero,
     consolidated_relief |-> Zero,
     annual_tax          |-> Zero,
     monthly_tax         |-> Zero,
     effective_rate      |-> Zero]

\* Faulty variant of line 18: the threshold test is not strict.
IsTaxable_inclusive(annual) == RatLe(FromInt(Threshold), annual)

\* Faulty variant of line 18: the exemption is never applied.
IsTaxable_always(annual) == TRUE

\* line 18
IsTaxable(annual) == RatGt(annual, FromInt(Threshold))

\* Faulty variant of line 22: the operands are exchanged.
AnnualRelief_swapped(cur, prop) == RatSub(prop.annual_tax, cur.annual_tax)

\* line 22
AnnualRelief(cur, prop) == RatSub(cur.annual_tax, prop.annual_tax)

\* Faulty variant of line 23: the monthly relief is taken from the rounded
\* annual relief.
MonthlyRelief_fromRounded(relief) == RatDiv(Round2(relief), FromInt(MonthsPerYear))

\* line 23
MonthlyRelief(relief) == RatDiv(relief, FromInt(MonthsPerYear))

\* Faulty variant of lines 25-28: the division is not guarded.
PercentageChange_unguarded(relief, cur) ==
    LET q == RatDiv(relief, cur.annual_tax)
    IN  IF IsError(q) THEN q ELSE RatMul(q, FromInt(100))

\* lines 25-28
PercentageChange(relief, cur) ==
    IF RatGt(cur.annual_tax, Zero)
    THEN LET q == RatDiv(relief, cur.annual_tax)
         IN  IF IsError(q) THEN q ELSE RatMul(q, FromInt(100))
    ELSE Zero

\* {"label": label, **rec}: the keys of rec come after "label" and win
WithLabel(label, rec) ==
    [k \in {"label"} \cup DOMAIN rec |-> IF k \in DOMAIN rec THEN rec[k] ELSE label]

\* lines 55-59
Impact(mrelief, arelief, pchange) ==
    [monthly_relief    |-> Round2(mrelief),
     annual_relief     |-> Round2(arelief),
     percentage_change |-> Round2(pchange)]

\* Faulty variant of lines 41-60: the taxable branch returns early, without
\* the impact record.
Assemble_earlyReturn(m, annual, cur, prop, mrelief, arelief, pchange) ==
    IF RatGt(annual, FromInt(Threshold))
    THEN [monthly_income |-> m,
          annual_income  |-> annual,
          current        |-> WithLabel("2024 PITA", cur),
          proposed       |-> WithLabel("2026 Reform", prop)]
    ELSE [monthly_income |-> m,
          annual_income  |-> annual,
          current        |-> WithLabel("2024 PITA", cur),
          proposed       |-> WithLabel("2026 Reform", prop),
          impact         |-> Impact(mrelief, arelief, pchange)]

\* lines 41-60
Assemble(m, annual, cur, prop, mrelief, arelief, pchange) ==
    [monthly_income |-> m,
     annual_income  |-> annual,
     current        |-> WithLabel("2024 PITA", cur),
     proposed       |-> WithLabel("2026 Reform", prop),
     impact         |-> Impact(mrelief, arelief, pchange)]

-----------------------------------------------------------------------------
(* The state machine *)

Init ==
    /\ regimes \in Configs
    /\ pc = "idle"
    /\ monthly_income = Unbound
    /\ annual_income = Unbound
    /\ zero_tax_result = Unbound
    /\ current = Unbound
    /\ proposed = Unbound
    /\ annual_relief = Unbound
    /\ monthly_relief = Unbound
    /\ percentage_change = Unbound
    /\ result = NoResult
    /\ invoked = << >>
    /\ memo = [x \in MonthlyIncomes |-> NoResult]
    /\ ncalls = 0

\* line 4: a caller calls calculate_tax_impact(x); the frame's locals are fresh
Call(x) ==
    /\ pc \in {"idle", "returned", "raised"}
    /\ ncalls < MaxCalls
    /\ pc' = "l6"
    /\ monthly_income' = x
    /\ annual_income' = Unbound
    /\ zero_tax_result' = Unbound
    /\ current' = Unbound
    /\ proposed' = Unbound
    /\ annual_relief' = Unbound
    /\ monthly_relief' = Unbound
    /\ percentage_change' = Unbound
    /\ invoked' = << >>
    /\ ncalls' = ncalls + 1
    /\ UNCHANGED <<regimes, result, memo>>

\* lines 6-16
ComputeAnnualIncome ==
    /\ pc = "l6"
    /\ annual_income' = AnnualIncome(monthly_income)
    /\ zero_tax_result' = ZeroTaxResult(annual_income')
    /\ pc' = "l18"
    /\ UNCHANGED <<regimes, monthly_income, current, proposed, annual_relief,
                   monthly_relief, percentage_change, result, invoked, memo, ncalls>>

\* lines 18-19
Invoke2024 ==
    /\ pc = "l18"
    /\ IsTaxable(annual_income)
    /\ current' = calculate_pita_2024(annual_income)
    /\ invoked' = Append(invoked, [fn |-> "calculate_pita_2024", arg |-> annual_income])
    /\ pc' = IF IsError(current') THEN "raised" ELSE "l20"
    /\ UNCHANGED <<regimes, monthly_income, annual_income, zero_tax_result, proposed,
                   annual_relief, monthly_relief, percentage_change, result, memo, ncalls>>

\* line 20
Invoke2026 ==
    /\ pc = "l20"
    /\ proposed' = calculate_pita_2026(annual_income)
    /\ invoked' = Append(invoked, [fn |-> "calculate_pita_2026", arg |-> annual_income])
    /\ pc' = IF IsError(proposed') THEN "raised" ELSE "l22"
    /\ UNCHANGED <<regimes, monthly_income, annual_income, zero_tax_result, current,
                   annual_relief, monthly_relief, percentage_change, result, memo, ncalls>>

\* lines 22-28
ComputeRelief ==
    /\ pc = "l22"
    /\ annual_relief' = AnnualRelief(current, proposed)
    /\ monthly_relief' = MonthlyRelief(annual_relief')
    /\ percentage_change' = PercentageChange(annual_relief', current)
    /\ pc' = IF IsError(percentage_change') THEN "raised" ELSE "l41"
    /\ UNCHANGED <<regimes, monthly_income, annual_income, zero_tax_result, current,
                   proposed, result, invoked, memo, ncalls>>

\* Faulty variant of lines 31-38: the proposed regime gets a template of its
\* own, built with a gross income of zero.
ExemptBranch_ownTemplate ==
    /\ pc = "l18"
    /\ ~IsTaxable(annual_income)
    /\ current' = zero_tax_result
    /\ proposed' = ZeroTaxResult(Zero)
    /\ annual_relief' = Zero
    /\ monthly_relief' = Zero
    /\ percentage_change' = Zero
    /\ pc' = "l41"
    /\ UNCHANGED <<regimes, monthly_income, annual_income, zero_tax_result, result,
                   invoked, memo, ncalls>>

\* lines 31-38
ExemptBranch ==
    /\ pc = "l18"
    /\ ~IsTaxable(annual_income)
    /\ current' = zero_tax_result
    /\ proposed' = zero_tax_result
    /\ annual_relief' = Zero
    /\ monthly_relief' = Zero
    /\ percentage_change' = Zero
    /\ pc' = "l41"
    /\ UNCHANGED <<regimes, monthly_income, annual_income, zero_tax_result, result,
                   invoked, memo, ncalls>>

\* lines 41-60; the caller files the value under the argument it passed
Return ==
    /\ pc = "l41"
    /\ result' = Assemble(monthly_income, annual_income, current, proposed,
                          monthly_relief, annual_relief, percentage_change)
    /\ memo' = IF memo[monthly_income] = NoResult
               THEN [memo EXCEPT ![monthly_income] = result']
               ELSE memo
    /\ pc' = "returned"
    /\ UNCHANGED <<regimes, monthly_income, locals, invoked, ncalls>>

Next ==
    \/ \E x \in MonthlyIncomes : Call(x)
    \/ ComputeAnnualIncome
    \/ Invoke2024
    \/ Invoke2026
    \/ ComputeRelief
    \/ ExemptBranch
    \/ Return

Spec == Init /\ [][Next]_vars

-----------------------------------------------------------------------------
(* Properties of calculate_tax_impact *)

Returned == pc = "returned"

\* the exact annual income of the running / last call
Gross == RatMul(monthly_income, FromInt(12))

Exempt == Returned /\ RatLe(Gross, FromInt(800000))

Taxable == Returned /\ RatGt(Gross, FromInt(800000))

RegimeFields ==
    {"gross_income", "taxable_income", "consolidated_relief", "annual_tax",
     "monthly_tax", "effective_rate"}

ZeroFields == RegimeFields \ {"gross_income"}

\* C1: a call with a negative monthly_income raises InvalidInputError and
\* returns no result record: no call with a negative argument ever returns.
C1_NegativeInputNeverReturns ==
    (IsNum(monthly_income) /\ RatLt(monthly_income, Zero)) => ~Returned

\* C2: whenever annual_income <= 800000 (800000 included), the current and
\* the proposed record carry gross_income = annual_income and 0 in every
\* other numeric field, and the three impact fields are 0.
C2_ExemptResultIsZero ==
    Exempt =>
        /\ result.current.gross_income = Gross
        /\ result.proposed.gross_income = Gross
        /\ \A k \in ZeroFields : result.current[k] = Zero /\ result.proposed[k] = Zero
        /\ result.impact.monthly_relief = Zero
        /\ result.impact.annual_relief = Zero
        /\ result.impact.percentage_change = Zero

\* the call returned at the boundary, annual_income exactly 800000
C2_Witness ==
    /\ Returned
    /\ result.annual_income = FromInt(800000)
    /\ result.current.annual_tax = Zero
    /\ result.impact.annual_relief = Zero

\* C3: whenever annual_income > 800000, impact.annual_relief is the 2024 tax
\* minus the 2026 tax for annual_income, rounded to 2 decimals, and, when the
\* 2024 tax is positive, impact.percentage_change is that (unrounded, signed)
\* difference over the 2024 tax times 100, rounded to 2 decimals.
C3_ReliefIsRoundedDifference ==
    Taxable =>
        LET c == calculate_pita_2024(Gross)
            p == calculate_pita_2026(Gross)
            d == RatSub(c.annual_tax, p.annual_tax)
        IN  /\ result.impact.annual_relief = Round2(d)
            /\ RatGt(c.annual_tax, Zero) =>
                   result.impact.percentage_change =
                       Round2(RatMul(RatDiv(d, c.annual_tax), FromInt(100)))

\* a taxable call returned where the proposed tax is the higher one
C3_Witness ==
    /\ Taxable
    /\ RatGt(result.current.annual_tax, Zero)
    /\ RatLt(result.impact.annual_relief, Zero)
    /\ RatLt(result.impact.percentage_change, Zero)

\* C4 as stated: whenever annual_income <= 800000, the returned current
\* record equals the returned proposed record and impact.annual_relief is 0.
C4_CurrentEqualsProposed ==
    Exempt => (result.current = result.proposed /\ result.impact.annual_relief = Zero)

\* C4 amended: whenever annual_income <= 800000, the returned current and
\* proposed records agree on every regime field (gross_income = annual_income,
\* the others 0) and differ in their label only, and impact.annual_relief is 0.
C4_CurrentEqualsProposedUpToLabel ==
    Exempt =>
        /\ DOMAIN result.current = RegimeFields \cup {"label"}
        /\ DOMAIN result.proposed = RegimeFields \cup {"label"}
        /\ \A k \in RegimeFields : result.current[k] = result.proposed[k]
        /\ result.current.label = "2024 PITA"
        /\ result.proposed.label = "2026 Reform"
        /\ result.impact.annual_relief = Zero

\* an exempt call with a non-zero income returned
C4_Witness ==
    /\ Exempt
    /\ RatGt(result.current.gross_income, Zero)
    /\ result.current # result.proposed

\* C5: annual_income is monthly_income * 12 from line 6 on, before the
\* threshold test, and every returned result, on either branch, carries
\* annual_income = monthly_income * 12 and the monthly_income it was given.
C5_AnnualIncomeEverywhere ==
    /\ pc \in {"l18", "l20", "l22", "l41", "returned"} => annual_income = Gross
    /\ Returned => (result.annual_income = Gross /\ result.monthly_income = monthly_income)

\* an exempt call with a positive income returned its annual income
C5_Witness ==
    /\ Exempt
    /\ RatGt(monthly_income, Zero)
    /\ result.annual_income = FromInt(600000)

\* C6: a call returns the value the first call with the same argument
\* returned, whatever calls were made in between.
C6_SameInputSameResult ==
    Returned => result = memo[monthly_income]

\* three calls have returned, two of them with the same argument
C6_Witness ==
    /\ Returned
    /\ ncalls = 3
    /\ Cardinality({x \in MonthlyIncomes : memo[x] # NoResult}) = 2

\* C7: no call ends in a division error, and on the taxable branch a 2024
\* tax of 0 gives a percentage_change of 0 in the locals and in the result.
C7_NoDivisionError ==
    /\ pc # "raised"
    /\ (pc \in {"l41", "returned"} /\ RatGt(Gross, FromInt(800000))
            /\ current.annual_tax = Zero)
           => /\ percentage_change = Zero
              /\ Returned => result.impact.percentage_change = Zero

\* a taxable call returned with a 2024 tax of 0 and a non-zero relief
C7_Witness ==
    /\ Taxable
    /\ result.current.annual_tax = Zero
    /\ result.impact.annual_relief # Zero
    /\ result.impact.percentage_change = Zero

\* C8: with annual_income > 800000 the call invokes the 2024 calculator and
\* then the 2026 calculator, once each, on annual_income; with
\* annual_income <= 800000 it invokes neither at any point.
C8_CalculatorsInvokedIffTaxable ==
    pc \in {"l18", "l20", "l22", "l41", "returned"} =>
        IF RatGt(Gross, FromInt(800000))
        THEN /\ pc = "l18" => invoked = << >>
             /\ pc = "l20" => invoked = <<[fn |-> "calculate_pita_2024", arg |-> Gross]>>
             /\ pc \in {"l22", "l41", "returned"} =>
                    invoked = <<[fn |-> "calculate_pita_2024", arg |-> Gross],
                                [fn |-> "calculate_pita_2026", arg |-> Gross]>>
        ELSE invoked = << >>

\* a taxable call returned after invoking both calculators
C8_Witness ==
    /\ Taxable
    /\ Len(invoked) = 2

\* C9: at the assembly step every local it reads is bound, on either
\* branch, and every returned value has monthly_income, annual_income, a
\* current record labeled "2024 PITA", a proposed record labeled
\* "2026 Reform" and an impact record with its three fields.
C9_SingleAssembly ==
    /\ pc = "l41" =>
           /\ IsNum(annual_relief) /\ IsNum(monthly_relief) /\ IsNum(percentage_change)
           /\ DOMAIN current = RegimeFields /\ DOMAIN proposed = RegimeFields
    /\ Returned =>
           /\ DOMAIN result =
                  {"monthly_income", "annual_income", "current", "proposed", "impact"}
           /\ result.current.label = "2024 PITA"
           /\ result.proposed.label = "2026 Reform"
           /\ DOMAIN result.impact =
                  {"monthly_relief", "annual_relief", "percentage_change"}

\* a call returned on the taxable branch
C9_Witness ==
    /\ Taxable
    /\ IsNum(result.impact.monthly_relief)
    /\ result.impact.annual_relief # Zero

\* C10: the locals hold unrounded values up to the assembly step; in the
\* result, monthly_relief and percentage_change are the roundings of values
\* derived from the unrounded annual relief, and the current and proposed
\* records are the calculators' records with only the label added.
C10_RoundingOnlyAtAssembly ==
    (pc \in {"l41", "returned"} /\ RatGt(Gross, FromInt(800000))) =>
        LET c  == calculate_pita_2024(Gross)
            p  == calculate_pita_2026(Gross)
            d  == RatSub(c.annual_tax, p.annual_tax)
            mr == RatDiv(d, FromInt(12))
            pr == IF RatGt(c.annual_tax, Zero)
                  THEN RatMul(RatDiv(d, c.annual_tax), FromInt(100))
                  ELSE Zero
        IN  /\ annual_relief = d
            /\ monthly_relief = mr
            /\ percentage_change = pr
            /\ Returned =>
                   /\ result.impact.monthly_relief = Round2(mr)
                   /\ result.impact.annual_relief = Round2(d)
                   /\ result.impact.percentage_change = Round2(pr)
                   /\ result.current = WithLabel("2024 PITA", c)
                   /\ result.proposed = WithLabel("2026 Reform", p)

\* a taxable call returned where rounding the annual relief first would have
\* given another monthly relief and another percentage change
C10_Witness ==
    /\ Taxable
    /\ annual_relief # Round2(annual_relief)
    /\ result.current.annual_tax # Round2(result.current.annual_tax)
    /\ RatGt(current.annual_tax, Zero)
    /\ result.impact.monthly_relief #
           Round2(RatDiv(Round2(annual_relief), FromInt(12)))
    /\ result.impact.percentage_change #
           Round2(RatMul(RatDiv(Round2(annual_relief), current.annual_tax), FromInt(100)))

=============================================================================
